---- MODULE Spec2Model ----
(***************************************************************************)
(* Model of parking_rate.py: get_duration, calculate_fee, get_parking_fee. *)
(*                                                                         *)
(* An instant is a record [day, hour, minute, second, microsecond]; day is *)
(* the ordinal of the calendar date counted from a Monday (day 0), so that *)
(* datetime.weekday() is day % 7.  Money is kept in cents: every rate of   *)
(* the source is a multiple of 0.5, so the float arithmetic of the source  *)
(* is exact and cents reproduce it.                                        *)
(***************************************************************************)
EXTENDS Integers, Sequences, FiniteSets, TLC

VARIABLES call, time_in, time_out, pc, calls, duration_dict, weekday_count,
          weekend_count, time_in_weekday, time_out_weekday, fee, ret

vars == <<call, time_in, time_out, pc, calls, duration_dict, weekday_count,
          weekend_count, time_in_weekday, time_out_weekday, fee, ret>>

----------------------------------------------------------------------------
(* Bounds of the model *)

\* calendar dates 0..MaxDay (day 0 is a Monday)
MaxDay == 7

\* hours handed directly to calculate_fee range over 0..MaxHours
MaxHours == 23

\* elapsed-day counts handed directly to calculate_fee range over 0..MaxCount
MaxCount == 1

\* times of day (hour, minute, second, microsecond) the instants are drawn from
TimeSamples ==
    { <<0, 0, 0, 0>>,   <<0, 0, 30, 0>>,  <<7, 0, 0, 0>>,   <<8, 0, 0, 0>>,
      <<8, 16, 0, 57000>>, <<8, 27, 0, 57000>>, <<8, 45, 0, 0>>,
      <<10, 0, 0, 0>>,  <<10, 6, 0, 0>>,  <<11, 0, 0, 0>>,  <<11, 5, 59, 0>>,
      <<11, 6, 0, 0>>,  <<23, 59, 59, 999999>> }

\* minutes handed directly to calculate_fee
MinuteSamples == {0, 5, 6, 15, 16, 59}

Instants ==
    { [day |-> d, hour |-> t[1], minute |-> t[2], second |-> t[3],
       microsecond |-> t[4]] : d \in 0..MaxDay, t \in TimeSamples }

----------------------------------------------------------------------------
(* Module constants of the source *)

\* datetime(2023, 10, 6, 8, 16, 0, 57000): a Friday
TIME_IN == [day |-> 4, hour |-> 8, minute |-> 16, second |-> 0,
            microsecond |-> 57000]

\* datetime(2023, 10, 6, 8, 27, 0, 57000)
TIME_OUT == [day |-> 4, hour |-> 8, minute |-> 27, second |-> 0,
             microsecond |-> 57000]

\* rate table of calculate_fee, in cents
first_n_hours == 3
free_of_charge_minutes == 15
grace_period_minutes == 5
weekday_first_n_hours_rate == 300
weekday_subsequent_hours == 150
weekday_max_charge_per_day == 2000
weekend_first_n_hours_rate == 500
weekend_subsequent_hours == 200
weekend_max_charge_per_day == 4000

----------------------------------------------------------------------------
(* datetime and timedelta *)

\* calendar.day_name
day_name == <<"Monday", "Tuesday", "Wednesday", "Thursday", "Friday",
              "Saturday", "Sunday">>

\* datetime.weekday(): Monday is 0
weekday(t) == t.day % 7

SecondOfDay(t) == t.hour * 3600 + t.minute * 60 + t.second

\* a - b as a normalised timedelta: 0 <= microseconds < 10^6,
\* 0 <= seconds < 86400, the sign carried by days alone
TimeDelta_Abs(a, b) ==
    LET us0 == a.microsecond - b.microsecond
        s0  == SecondOfDay(a) - SecondOfDay(b) - (IF us0 < 0 THEN 1 ELSE 0)
        d0  == a.day - b.day - (IF s0 < 0 THEN 1 ELSE 0)
        d1  == IF d0 < 0 THEN 0 - d0 ELSE d0
    IN  [days         |-> d1,
         seconds      |-> IF s0 < 0 THEN s0 + 86400 ELSE s0,
         microseconds |-> IF us0 < 0 THEN us0 + 1000000 ELSE us0]

TimeDelta(a, b) ==
    LET us0 == a.microsecond - b.microsecond
        s0  == SecondOfDay(a) - SecondOfDay(b) - (IF us0 < 0 THEN 1 ELSE 0)
        d0  == a.day - b.day - (IF s0 < 0 THEN 1 ELSE 0)
    IN  [days         |-> d0,
         seconds      |-> IF s0 < 0 THEN s0 + 86400 ELSE s0,
         microseconds |-> IF us0 < 0 THEN us0 + 1000000 ELSE us0]

\* t + timedelta(days=n)
AddDays(t, n) == [t EXCEPT !.day = @ + n]

----------------------------------------------------------------------------
(* get_duration *)

\* duration_datetime.seconds // 3600
SecondsToHours(seconds) == seconds \div 3600

SecondsToMinutes_Rounded(seconds) == ((seconds % 3600) + 30) \div 60

\* duration_datetime.seconds % 3600 // 60
SecondsToMinutes(seconds) == (seconds % 3600) \div 60

\* is_weekend of the elapsed-day loop, for the date `then + i days`
is_weekend(then, i) ==
    LET day == day_name[weekday(AddDays(then, i)) + 1]
    IN  day = "Saturday" \/ day = "Sunday"

\* the indices of range(days) the loop counts: all but idx 0
CountedIndices(days) == { i \in 0..(days - 1) : i # 0 }

\* datetime(next_date.year, next_date.month, next_date.day, 0, 1, 0, 0)
next_day(then) ==
    LET next_date == AddDays(then, 1)
    IN  [day |-> next_date.day, hour |-> 0, minute |-> 1, second |-> 0,
         microsecond |-> 0]

\* then.date() == now.date()
SameDate(then, now) == then.day = now.day

GetDuration(then, now) ==
    LET duration_datetime == TimeDelta(now, then)
        days    == duration_datetime.days
        overall == [days    |-> days,
                    hours   |-> SecondsToHours(duration_datetime.seconds),
                    minutes |-> SecondsToMinutes(duration_datetime.seconds)]
        duration_first_day == TimeDelta(next_day(then), then)
        first_day == [hours   |-> SecondsToHours(duration_first_day.seconds),
                      minutes |-> SecondsToMinutes(duration_first_day.seconds)]
        remaining == [hours |-> now.hour, minutes |-> now.minute]
    IN  [duration_dict |->
            IF ~ SameDate(then, now)
            THEN [overall |-> overall, first_day |-> first_day,
                  remaining |-> remaining]
            ELSE [overall |-> overall],
         elapsed_weekday_count |->
            Cardinality({ i \in CountedIndices(days) : ~ is_weekend(then, i) }),
         elapsed_weekend_count |->
            Cardinality({ i \in CountedIndices(days) : is_weekend(then, i) })]

----------------------------------------------------------------------------
(* calculate_fee *)

\* the try block: first_day and remaining are used only if both are present
HasSplit(d) == "first_day" \in DOMAIN d /\ "remaining" \in DOMAIN d

FirstDayBaseFee_NoFree(hours, minutes, n_rate, sub_rate) ==
    IF hours > first_n_hours
    THEN n_rate + sub_rate * (hours - first_n_hours)
    ELSE IF hours = first_n_hours
    THEN n_rate
    ELSE IF hours < 1
         THEN 0
         ELSE sub_rate * hours

\* fee of the start date by hour tier, before the grace period and the cap
FirstDayBaseFee(hours, minutes, n_rate, sub_rate) ==
    IF hours > first_n_hours
    THEN n_rate + sub_rate * (hours - first_n_hours)
    ELSE IF hours = first_n_hours
    THEN n_rate
    ELSE IF hours < 1
         THEN IF minutes > free_of_charge_minutes THEN sub_rate ELSE 0
         ELSE sub_rate * hours

GraceSurcharge_Inclusive(hours, minutes, sub_rate) ==
    IF hours >= 1 /\ minutes >= grace_period_minutes THEN sub_rate ELSE 0

\* one more hour once the minutes pass the grace period, from 1 hour on
GraceSurcharge(hours, minutes, sub_rate) ==
    IF hours >= 1 /\ minutes > grace_period_minutes THEN sub_rate ELSE 0

CapFee_NoCap(a_fee, max_rate) == a_fee

CapFee_Larger(a_fee, max_rate) == IF a_fee > max_rate THEN a_fee ELSE max_rate

\* "check if exceed max rate"
CapFee(a_fee, max_rate) == IF a_fee > max_rate THEN max_rate ELSE a_fee

CalculateFee(d, wd_count, we_count, in_weekday, out_weekday) ==
    LET first_n_hours_rate ==
            IF in_weekday THEN weekday_first_n_hours_rate
                          ELSE weekend_first_n_hours_rate
        first_day_subsequent_hours_rate ==
            IF in_weekday THEN weekday_subsequent_hours
                          ELSE weekend_subsequent_hours
        first_day_max_rate ==
            IF in_weekday THEN weekday_max_charge_per_day
                          ELSE weekend_max_charge_per_day
        remaining_subsequent_hours_rate ==
            IF out_weekday THEN weekday_subsequent_hours
                           ELSE weekend_subsequent_hours
        remaining_max_rate ==
            IF out_weekday THEN weekday_max_charge_per_day
                           ELSE weekend_max_charge_per_day
        elapsed_days_fee ==
            IF wd_count # 0 \/ we_count # 0
            THEN wd_count * weekday_max_charge_per_day
                 + we_count * weekend_max_charge_per_day
            ELSE 0
        hours_to_calculate ==
            IF HasSplit(d) THEN d.first_day.hours ELSE d.overall.hours
        minutes_to_calculate ==
            IF HasSplit(d) THEN d.first_day.minutes ELSE d.overall.minutes
        first_day_fee ==
            CapFee(FirstDayBaseFee(hours_to_calculate, minutes_to_calculate,
                                   first_n_hours_rate,
                                   first_day_subsequent_hours_rate)
                   + GraceSurcharge(hours_to_calculate, minutes_to_calculate,
                                    first_day_subsequent_hours_rate),
                   first_day_max_rate)
        remaining_hours_fee ==
            IF HasSplit(d)
            THEN CapFee(d.remaining.hours * remaining_subsequent_hours_rate
                        + GraceSurcharge(d.remaining.hours, d.remaining.minutes,
                                         remaining_subsequent_hours_rate),
                        remaining_max_rate)
            ELSE 0
    IN  [first_day_fee       |-> first_day_fee,
         elapsed_days_fee    |-> elapsed_days_fee,
         remaining_hours_fee |-> remaining_hours_fee,
         total_fee           |-> first_day_fee + elapsed_days_fee
                                 + remaining_hours_fee]

----------------------------------------------------------------------------
(* get_parking_fee *)

InvalidRange_NonPositive(elapsed) == elapsed.days < 1

\* elapsed.days < 0: the raise statement is reached
InvalidRange(elapsed) == elapsed.days < 0

\* time_in.weekday() < 5
IsWeekday(t) == weekday(t) < 5

\* the duration label, as the sequence of its parts
DurationStr(overall) ==
    LET total_hours == overall.days * 24 + overall.hours
    IN  IF 1 <= total_hours /\ total_hours < 24
        THEN <<overall.hours, "hours", overall.minutes, "minutes">>
        ELSE IF total_hours < 1
        THEN <<overall.minutes, "minutes">>
        ELSE <<total_hours, "hours">>

\* the fee get_parking_fee returns for a valid range
ParkingFee(t_in, t_out) ==
    LET gd == GetDuration(t_in, t_out)
    IN  CalculateFee(gd.duration_dict, gd.elapsed_weekday_count,
                     gd.elapsed_weekend_count, IsWeekday(t_in),
                     IsWeekday(t_out))

----------------------------------------------------------------------------
(* State machine: one call of one of the three functions *)

NoDict == [k \in {} |-> 0]
NoFee == [first_day_fee |-> 0, elapsed_days_fee |-> 0,
          remaining_hours_fee |-> 0, total_fee |-> 0]

Idle ==
    /\ call = "none"
    /\ pc = "idle"
    /\ calls = {}
    /\ duration_dict = NoDict
    /\ weekday_count = 0
    /\ weekend_count = 0
    /\ time_in_weekday = FALSE
    /\ time_out_weekday = FALSE
    /\ fee = NoFee
    /\ ret = <<>>

\* any pair of instants may be handed to get_parking_fee or get_duration
Init ==
    /\ time_in \in Instants
    /\ time_out \in Instants
    /\ Idle

\* calculate_fee is called on its own; the instants are the module's constants
InitFee ==
    /\ time_in = TIME_IN
    /\ time_out = TIME_OUT
    /\ Idle

\* get_parking_fee(time_in, time_out)
get_parking_fee ==
    /\ pc = "idle"
    /\ call' = "get_parking_fee"
    /\ IF InvalidRange(TimeDelta(time_out, time_in))
       THEN /\ pc' = "raised"
            /\ UNCHANGED <<calls, duration_dict, weekday_count, weekend_count,
                           time_in_weekday, time_out_weekday, fee, ret>>
       ELSE LET gd == GetDuration(time_in, time_out)
                f  == CalculateFee(gd.duration_dict, gd.elapsed_weekday_count,
                                   gd.elapsed_weekend_count,
                                   IsWeekday(time_in), IsWeekday(time_out))
            IN  /\ pc' = "returned"
                /\ calls' = {"get_duration", "calculate_fee"}
                /\ duration_dict' = gd.duration_dict
                /\ weekday_count' = gd.elapsed_weekday_count
                /\ weekend_count' = gd.elapsed_weekend_count
                /\ time_in_weekday' = IsWeekday(time_in)
                /\ time_out_weekday' = IsWeekday(time_out)
                /\ fee' = f
                /\ ret' = <<DurationStr(gd.duration_dict.overall), f.total_fee>>
    /\ UNCHANGED <<time_in, time_out>>

\* get_duration(time_in, time_out) called directly
get_duration ==
    /\ pc = "idle"
    /\ call' = "get_duration"
    /\ LET gd == GetDuration(time_in, time_out)
       IN  /\ pc' = "returned"
           /\ calls' = {"get_duration"}
           /\ duration_dict' = gd.duration_dict
           /\ weekday_count' = gd.elapsed_weekday_count
           /\ weekend_count' = gd.elapsed_weekend_count
           /\ ret' = <<gd.duration_dict, gd.elapsed_weekday_count,
                       gd.elapsed_weekend_count>>
    /\ UNCHANGED <<time_in, time_out, time_in_weekday, time_out_weekday, fee>>

\* the duration dicts calculate_fee is called with directly
HourMinute == [hours : 0..MaxHours, minutes : MinuteSamples]

DictInputs ==
    { [overall |-> [days |-> 0, hours |-> o.hours, minutes |-> o.minutes]] :
        o \in HourMinute }
    \cup { [overall |-> [days |-> 1, hours |-> 0, minutes |-> 0],
            first_day |-> f] : f \in HourMinute }
    \cup { [overall |-> [days |-> 1, hours |-> 0, minutes |-> 0],
            first_day |-> f, remaining |-> r] :
            f \in HourMinute, r \in HourMinute }

\* calculate_fee(duration_dict, weekday_count, weekend_count,
\*               time_in_weekday, time_out_weekday) called directly
calculate_fee ==
    /\ pc = "idle"
    /\ call' = "calculate_fee"
    /\ \E d \in DictInputs, wd \in 0..MaxCount, we \in 0..MaxCount,
          iw \in BOOLEAN, ow \in BOOLEAN :
          LET f == CalculateFee(d, wd, we, iw, ow)
          IN  /\ pc' = "returned"
              /\ calls' = {"calculate_fee"}
              /\ duration_dict' = d
              /\ weekday_count' = wd
              /\ weekend_count' = we
              /\ time_in_weekday' = iw
              /\ time_out_weekday' = ow
              /\ fee' = f
              /\ ret' = <<f.total_fee>>
    /\ UNCHANGED <<time_in, time_out>>

Next == get_parking_fee \/ get_duration

NextFee == calculate_fee

Spec == Init /\ [][Next]_vars

SpecFee == InitFee /\ [][NextFee]_vars

----------------------------------------------------------------------------
(* Properties *)

\* a is strictly earlier than b
Before(a, b) ==
    \/ a.day < b.day
    \/ a.day = b.day /\ SecondOfDay(a) < SecondOfDay(b)
    \/ a.day = b.day /\ SecondOfDay(a) = SecondOfDay(b)
       /\ a.microsecond < b.microsecond

\* whole seconds from a to b, for a not after b
ElapsedWholeSeconds(a, b) ==
    (b.day - a.day) * 86400 + SecondOfDay(b) - SecondOfDay(a)
    - (IF b.microsecond < a.microsecond THEN 1 ELSE 0)

Returned(name) == call = name /\ pc = "returned"

SplitReturned == Returned("get_duration") \/ Returned("get_parking_fee")

AtTime(t, h, m) ==
    t.hour = h /\ t.minute = m /\ t.second = 0 /\ t.microsecond = 0

\* calendar dates strictly between the dates of a and b
DatesBetween(a, b) == { d \in 0..(MaxDay + 1) : a.day < d /\ d < b.day }

MaxCharge(is_weekday) ==
    IF is_weekday THEN weekday_max_charge_per_day
                  ELSE weekend_max_charge_per_day

SubsequentRate(is_weekday) ==
    IF is_weekday THEN weekday_subsequent_hours ELSE weekend_subsequent_hours

\* ---- C1 ----
C1_Case ==
    /\ Returned("get_parking_fee")
    /\ weekday(time_in) = 0
    /\ time_out.day = time_in.day + 2
    /\ AtTime(time_in, 8, 0)
    /\ AtTime(time_out, 10, 0)

\* C1 as stated: Monday 08:00 to Wednesday 10:00 costs 80.0, made of 40.0 for
\* the elapsed days, 20.0 for the first day and 20.0 for the remaining segment
C1_Original ==
    C1_Case => /\ fee.total_fee = 8000
               /\ fee.elapsed_days_fee = 4000
               /\ fee.first_day_fee = 2000
               /\ fee.remaining_hours_fee = 2000

\* C1 amended: Monday 08:00 to Wednesday 10:00 costs 55.0: one elapsed day
\* (Tuesday) at 20.0, the first day capped at 20.0, and 10 remaining hours at
\* 1.5, that is 15.0, under the cap
C1_MondayToWednesday ==
    C1_Case => /\ fee.elapsed_days_fee = 2000
               /\ fee.first_day_fee = 2000
               /\ fee.remaining_hours_fee = 1500
               /\ fee.total_fee = 5500
               /\ ret[2] = 5500

C1_Witness == C1_Case /\ weekday_count = 1 /\ ret[2] = 5500

\* ---- C2 ----
\* C2 as stated: the elapsed weekday and weekend counts are the numbers of
\* Monday-Friday and Saturday/Sunday dates strictly between the entry date and
\* the exit date, whatever the times of day; two weekdays between cost 40.0
C2_Claim ==
    (SplitReturned /\ ~ Before(time_out, time_in)) =>
        /\ weekday_count =
             Cardinality({ d \in DatesBetween(time_in, time_out) : d % 7 < 5 })
        /\ weekend_count =
             Cardinality({ d \in DatesBetween(time_in, time_out) : d % 7 >= 5 })
        /\ ( /\ call = "get_parking_fee"
             /\ Cardinality({ d \in DatesBetween(time_in, time_out) :
                              d % 7 < 5 }) = 2
             /\ Cardinality({ d \in DatesBetween(time_in, time_out) :
                              d % 7 >= 5 }) = 0 )
           => fee.elapsed_days_fee = 2 * weekday_max_charge_per_day

\* ---- C3 ----
\* C3: whatever duration dict and day kinds calculate_fee is given, the
\* first-segment fee is at most the entry-side max daily charge, the
\* remaining-segment fee at most the exit-side max daily charge, and the total
\* at most the elapsed-day fee plus both caps
C3_SegmentsCapped ==
    Returned("calculate_fee") =>
        /\ fee.first_day_fee <= MaxCharge(time_in_weekday)
        /\ fee.remaining_hours_fee <= MaxCharge(time_out_weekday)
        /\ fee.total_fee <=
             weekday_count * weekday_max_charge_per_day
             + weekend_count * weekend_max_charge_per_day
             + MaxCharge(time_in_weekday) + MaxCharge(time_out_weekday)

C3_Witness ==
    /\ Returned("calculate_fee")
    /\ HasSplit(duration_dict)
    /\ time_in_weekday /\ ~ time_out_weekday
    /\ duration_dict.first_day.hours >= 15
    /\ duration_dict.remaining.hours >= 21
    /\ fee.first_day_fee = weekday_max_charge_per_day
    /\ fee.remaining_hours_fee = weekend_max_charge_per_day

\* ---- C4 ----
\* C4: get_parking_fee raises exactly when time_out is strictly earlier than
\* time_in; a raised call returns nothing and has called neither get_duration
\* nor calculate_fee; every other call returns a (label, fee) pair
C4_RaisesIffEarlier ==
    call = "get_parking_fee" =>
        /\ pc \in {"raised", "returned"}
        /\ (pc = "raised") <=> Before(time_out, time_in)
        /\ pc = "raised" => (ret = <<>> /\ calls = {})
        /\ pc = "returned" =>
             (Len(ret) = 2 /\ calls = {"get_duration", "calculate_fee"})

C4_Witness ==
    /\ call = "get_parking_fee"
    /\ pc = "raised"
    /\ time_out.day = time_in.day
    /\ ret = <<>>

\* ---- C5 ----
\* C5 as stated: get_duration called with exit strictly earlier than entry
\* fails instead of returning a decomposition
C5_Original ==
    (call = "get_duration" /\ Before(time_out, time_in)) => pc = "raised"

\* C5 amended: get_duration called with exit strictly earlier than entry does
\* not fail; it returns a decomposition whose overall.days is negative and
\* elapsed counts that are both zero
C5_NegativeRangeReturns ==
    (call = "get_duration" /\ Before(time_out, time_in)) =>
        /\ pc = "returned"
        /\ Len(ret) = 3
        /\ duration_dict.overall.days < 0
        /\ weekday_count = 0
        /\ weekend_count = 0

C5_Witness ==
    /\ Returned("get_duration")
    /\ Before(time_out, time_in)
    /\ time_out.day = time_in.day
    /\ duration_dict.overall.days = -1

\* ---- C6 ----
\* C6: for entry <= exit the overall part has days >= 0, hours in 0..23,
\* minutes in 0..59, and days*1440 + hours*60 + minutes is the elapsed time in
\* whole minutes, rounded down
C6_OverallTruncated ==
    (SplitReturned /\ ~ Before(time_out, time_in)) =>
        LET o == duration_dict.overall
        IN  /\ o.days >= 0
            /\ o.hours \in 0..23
            /\ o.minutes \in 0..59
            /\ o.days * 1440 + o.hours * 60 + o.minutes =
                 ElapsedWholeSeconds(time_in, time_out) \div 60

C6_Witness ==
    /\ Returned("get_duration")
    /\ ~ Before(time_out, time_in)
    /\ time_out.microsecond < time_in.microsecond
    /\ ElapsedWholeSeconds(time_in, time_out) % 60 = 59
    /\ duration_dict.overall.days >= 1

\* ---- C7 ----
\* the first-segment tier function as the claim words it
C7_Tier(h, m, is_weekday) ==
    LET n_rate == IF is_weekday THEN weekday_first_n_hours_rate
                                ELSE weekend_first_n_hours_rate
        rate   == SubsequentRate(is_weekday)
        base   == CASE h > 3 -> n_rate + rate * (h - 3)
                    [] h = 3 -> n_rate
                    [] 1 <= h /\ h < 3 -> rate * h
                    [] h < 1 -> IF m > 15 THEN rate ELSE 0
        grace  == IF h >= 1 /\ m > 5 THEN rate ELSE 0
    IN  IF base + grace > MaxCharge(is_weekday)
        THEN MaxCharge(is_weekday) ELSE base + grace

\* C7: on one calendar date there is no first_day and no remaining part, the
\* elapsed-day and remaining fees are zero, and the total fee is the tier
\* function of the overall hours and minutes at the entry day kind's rates;
\* a weekday stay of 3h0m costs 3.0
C7_SameDateTier ==
    /\ (SplitReturned /\ time_in.day = time_out.day) =>
           DOMAIN duration_dict = {"overall"}
    /\ (Returned("get_parking_fee") /\ time_in.day = time_out.day) =>
           LET o == duration_dict.overall
           IN  /\ fee.elapsed_days_fee = 0
               /\ fee.remaining_hours_fee = 0
               /\ fee.total_fee = C7_Tier(o.hours, o.minutes, IsWeekday(time_in))
               /\ ret[2] = fee.total_fee
               /\ (IsWeekday(time_in) /\ o.hours = 3 /\ o.minutes = 0)
                    => ret[2] = 300

C7_Witness ==
    /\ Returned("get_parking_fee")
    /\ time_in.day = time_out.day
    /\ IsWeekday(time_in)
    /\ duration_dict.overall = [days |-> 0, hours |-> 3, minutes |-> 5]
    /\ ret[2] = 300

\* ---- C8 ----
C8_Case ==
    /\ Returned("get_parking_fee")
    /\ time_in.day = time_out.day
    /\ time_in.microsecond = time_out.microsecond
    /\ SecondOfDay(time_out) - SecondOfDay(time_in) = 45 * 60

\* C8 as stated: a same-day stay of exactly 45 minutes has a first-segment
\* fee of 0
C8_Original == C8_Case => fee.first_day_fee = 0

\* C8 amended: a same-day stay of exactly 45 minutes has a first-segment fee
\* of one subsequent-hour unit, 1.5 for a weekday entry and 2.0 for a weekend
\* entry
C8_FortyFiveMinutes ==
    C8_Case => /\ fee.first_day_fee = SubsequentRate(IsWeekday(time_in))
               /\ fee.first_day_fee = (IF weekday(time_in) \in {5, 6}
                                       THEN 200 ELSE 150)

C8_Witness ==
    /\ C8_Case
    /\ weekday(time_in) = 5
    /\ duration_dict.overall = [days |-> 0, hours |-> 0, minutes |-> 45]
    /\ fee.first_day_fee = 200

\* ---- C9 ----
\* whole seconds from t to 00:00:00 of the next date
SecondsToMidnight(t) ==
    86400 - SecondOfDay(t) - (IF t.microsecond > 0 THEN 1 ELSE 0)

\* C9 as stated: across dates, first_day is the time from entry to the next
\* midnight in hours and minutes, seconds truncated, and remaining is the
\* exit's wall-clock hour and minute
C9_Claim ==
    (SplitReturned /\ time_in.day < time_out.day) =>
        /\ HasSplit(duration_dict)
        /\ duration_dict.first_day.hours = SecondsToMidnight(time_in) \div 3600
        /\ duration_dict.first_day.minutes =
             (SecondsToMidnight(time_in) % 3600) \div 60
        /\ duration_dict.remaining =
             [hours |-> time_out.hour, minutes |-> time_out.minute]

\* ---- C10 ----
\* C10 as stated: for a fixed entry, a later exit never costs less
C10_Claim ==
    Returned("get_parking_fee") =>
        \A later \in Instants :
            ~ Before(later, time_out) =>
                fee.total_fee <= ParkingFee(time_in, later).total_fee

====
